---- MODULE Spec2Model ----
(***************************************************************************)
(* Model of app.py, the Uber ride analysis dashboard: the load and         *)
(* preprocessing of the trip table, the sidebar filter selection, the      *)
(* boolean-mask filter get_filtered_data and the four sidebar metrics.     *)
(*                                                                         *)
(* A data frame is a sequence of rows; a row is a record that carries its  *)
(* pandas index label (idx) next to its columns.  Lat and Lon are read but *)
(* never take part in the filter or the metrics and are left out.  Chart   *)
(* rendering (the four tabs) changes none of the modelled state and is not *)
(* a step of the model.  Input files hold well-formed rows: a timestamp    *)
(* that matches the format and a base code.                                 *)
(***************************************************************************)
EXTENDS Integers, Sequences, FiniteSets, TLC

VARIABLES pc, err, data_files, data, selected_month, selected_base,
          selected_hour, filtered_data, metrics

vars == <<pc, err, data_files, data, selected_month, selected_base,
          selected_hour, filtered_data, metrics>>

(* ---------------- bounds of the model ---------------- *)

\* most files the glob matches
MaxFiles == 2

\* most rows in all the files together
MaxRaw == 5

\* rows the input files may hold: Date/Time as the fields of the text
\* "m/d/Y H:M:S" in the order they are written, and the Base code
RawRecords ==
    { [DateTime |-> <<4, 1, 2014, 10, 0, 0>>, Base |-> "B02598"],
      [DateTime |-> <<5, 1, 2014, 9, 0, 0>>,  Base |-> "B02512"],
      [DateTime |-> <<1, 2, 2014, 9, 0, 0>>,  Base |-> "B02512"] }

\* argument values get_filtered_data is applied to
MonthChoices == {"April", "May", "January", "NaN"}
BaseChoices == {"B02512", "B02598"}
HourChoices == {8, 9, 10}

(* ---------------- values ---------------- *)

\* the missing value of a categorical column
NaN == "NaN"

MonthNames == <<"January", "February", "March", "April", "May", "June", "July",
                "August", "September", "October", "November", "December">>

\* day names, indexed by weekday number + 1 with Monday = 0
DayNames == <<"Monday", "Tuesday", "Wednesday", "Thursday", "Friday",
              "Saturday", "Sunday">>

MonthCategories == <<"April", "May", "June", "July", "August", "September">>

DayCategories == <<"Monday", "Tuesday", "Wednesday", "Thursday", "Friday",
                   "Saturday", "Sunday">>

\* the base codes in the order Python compares strings
BaseCodes == <<"B02512", "B02598">>

Range(s) == { s[i] : i \in 1..Len(s) }

RECURSIVE SumSeq(_)
SumSeq(s) == IF s = <<>> THEN 0 ELSE Head(s) + SumSeq(Tail(s))

(* ---------------- load_and_preprocess_data ---------------- *)

\* pd.concat(dfs, ignore_index=True): the rows of the frames one after the
\* other, relabelled 0..n-1
RECURSIVE Flatten(_)
Flatten(dfs) == IF dfs = <<>> THEN <<>> ELSE Head(dfs) \o Flatten(Tail(dfs))

concat(dfs) ==
    LET rows == Flatten(dfs)
    IN  [i \in 1..Len(rows) |->
            [idx |-> i - 1, DateTime |-> rows[i].DateTime, Base |-> rows[i].Base]]

\* number of rows sample(frac=0.3) draws: round(0.3 * n), ties to even
SampleSize(n) ==
    LET q == (3 * n) \div 10
        r == (3 * n) % 10
    IN  IF r < 5 THEN q
        ELSE IF r > 5 THEN q + 1
        ELSE IF q % 2 = 0 THEN q ELSE q + 1

\* the draws sample can make: SampleSize(n) distinct positions in any order
SampleOrders(n) ==
    { o \in [1..SampleSize(n) -> 1..n] :
        \A i, j \in 1..SampleSize(n) : i # j => o[i] # o[j] }

sample(df, order) == [i \in 1..Len(order) |-> df[order[i]]]

\* pd.to_datetime(text, format='%m/%d/%Y %H:%M:%S')
to_datetime(text) ==
    [year |-> text[3], month |-> text[1], day |-> text[2], hour |-> text[4]]

month_name(ts) == MonthNames[ts.month]

\* weekday of a calendar date, Monday = 0
weekday(ts) ==
    LET t == <<0, 3, 2, 5, 0, 3, 5, 1, 4, 6, 2, 4>>
        y == IF ts.month < 3 THEN ts.year - 1 ELSE ts.year
        w == (y + (y \div 4) - (y \div 100) + (y \div 400) + t[ts.month] + ts.day) % 7
    IN  (w + 6) % 7

day_name(ts) == DayNames[weekday(ts) + 1]

\* cat.set_categories(cats): a value outside the new categories becomes NaN
set_categories(value, cats) == IF value \in Range(cats) THEN value ELSE NaN

\* lines 35-48: parse the timestamp and derive the calendar columns
Preprocess(df) ==
    [i \in 1..Len(df) |->
        LET ts == to_datetime(df[i].DateTime)
        IN  [idx       |-> df[i].idx,
             DateTime  |-> ts,
             Base      |-> df[i].Base,
             day       |-> ts.day,
             month     |-> set_categories(month_name(ts), MonthCategories),
             dayofweek |-> set_categories(day_name(ts), DayCategories),
             hour      |-> ts.hour]]

(* ---------------- get_filtered_data ---------------- *)

Column(df, name) == [i \in 1..Len(df) |-> df[i][name]]

\* code of a value in the month categories, -1 for a value that is none
CatCode(value) ==
    IF \E c \in 1..Len(MonthCategories) : MonthCategories[c] = value
    THEN (CHOOSE c \in 1..Len(MonthCategories) : MonthCategories[c] = value) - 1
    ELSE -1

\* cat_isin without the drop of the values that are no category: their
\* code -1 then matches the missing entries of the column
cat_isin_keep_unknown(col, values) ==
    LET code_values == { CatCode(v) : v \in values }
    IN  [i \in 1..Len(col) |-> CatCode(col[i]) \in code_values]

\* Categorical.isin: the values are turned into codes, a value that is no
\* category is dropped unless it is null, and the column's codes are looked up
cat_isin(col, values) ==
    LET code_values == { CatCode(v) : v \in { u \in values : u = NaN \/ CatCode(u) >= 0 } }
    IN  [i \in 1..Len(col) |-> CatCode(col[i]) \in code_values]

\* Series.isin on an object column
isin(col, values) == [i \in 1..Len(col) |-> col[i] \in values]

\* > written for >=
ge_strict(col, x) == [i \in 1..Len(col) |-> col[i] > x]

ge(col, x) == [i \in 1..Len(col) |-> col[i] >= x]
\* == written for <=
le_equal(col, x) == [i \in 1..Len(col) |-> col[i] = x]

le(col, x) == [i \in 1..Len(col) |-> col[i] <= x]

\* elementwise &
And(m1, m2) == [i \in 1..Len(m1) |-> m1[i] /\ m2[i]]

\* df[mask] that loses the first row of the frame
BoolIndex_skip_first(df, mask) ==
    LET RECURSIVE Pick(_, _)
        Pick(d, m) ==
            IF d = <<>> THEN <<>>
            ELSE IF Head(m) THEN <<Head(d)>> \o Pick(Tail(d), Tail(m))
                 ELSE Pick(Tail(d), Tail(m))
    IN  IF df = <<>> THEN <<>> ELSE Pick(Tail(df), Tail(mask))

\* df[mask]: the rows whose mask entry is True, in order, labels kept
RECURSIVE BoolIndex(_, _)
BoolIndex(df, mask) ==
    IF df = <<>> THEN <<>>
    ELSE IF Head(mask) THEN <<Head(df)>> \o BoolIndex(Tail(df), Tail(mask))
         ELSE BoolIndex(Tail(df), Tail(mask))

get_filtered_data(df, sel_month, sel_base, sel_hour) ==
    BoolIndex(df,
        And(And(And(cat_isin(Column(df, "month"), sel_month),
                    isin(Column(df, "Base"), sel_base)),
                ge(Column(df, "hour"), sel_hour[1])),
            le(Column(df, "hour"), sel_hour[2])))

(* ---------------- the script ---------------- *)

Init ==
    /\ pc = "load"
    /\ err = "none"
    /\ data_files = 0
    /\ data = <<>>
    /\ selected_month = {}
    /\ selected_base = {}
    /\ selected_hour = <<8, 20>>
    /\ filtered_data = <<>>
    /\ metrics = <<>>

\* line 82 on a cold cache: glob, read every file, concat, sample, preprocess.
\* pd.concat of an empty list raises ValueError.
Load ==
    /\ pc = "load"
    /\ \E nfiles \in 0..MaxFiles :
         \E lens \in [1..nfiles -> 0..MaxRaw] :
           /\ SumSeq(lens) <= MaxRaw
           /\ \E raw \in [1..SumSeq(lens) -> RawRecords] :
                LET dfs == [f \in 1..nfiles |->
                               SubSeq(raw, SumSeq(SubSeq(lens, 1, f - 1)) + 1,
                                           SumSeq(SubSeq(lens, 1, f)))]
                IN  /\ data_files' = Len(dfs)
                    /\ IF dfs = <<>>
                       THEN /\ pc' = "crashed"
                            /\ err' = "ValueError"
                            /\ data' = data
                       ELSE /\ \E order \in SampleOrders(Len(concat(dfs))) :
                                  data' = Preprocess(sample(concat(dfs), order))
                            /\ pc' = "sidebar"
                            /\ err' = err
    /\ UNCHANGED <<selected_month, selected_base, selected_hour, filtered_data, metrics>>

\* Series.unique(): the distinct values in order of first appearance
RECURSIVE unique(_)
unique(col) ==
    IF col = <<>> THEN <<>>
    ELSE LET rest == unique(SubSeq(col, 1, Len(col) - 1))
             last == col[Len(col)]
         IN  IF last \in Range(rest) THEN rest ELSE Append(rest, last)

\* count() written for nunique()
nunique_count(col) == Len(col)

nunique(col) == Len(unique(col))

\* Series.min() and Series.max() of a non-empty integer column
min(col) == CHOOSE x \in Range(col) : \A y \in Range(col) : x <= y
max(col) == CHOOSE x \in Range(col) : \A y \in Range(col) : x >= y

\* lines 86-103: the two multiselects offer the values present in the
\* table, the slider the hours between the table's least and greatest hour.
\* int(nan) raises ValueError when the table has no row.
SidebarFilters ==
    /\ pc = "sidebar"
    /\ IF data = <<>>
       THEN /\ selected_month' = {}
            /\ selected_base' = {}
            /\ pc' = "crashed"
            /\ err' = "ValueError"
            /\ UNCHANGED selected_hour
       ELSE /\ selected_month' \in SUBSET Range(unique(Column(data, "month")))
            /\ selected_base' \in SUBSET Range(unique(Column(data, "Base")))
            /\ \E lo, hi \in min(Column(data, "hour"))..max(Column(data, "hour")) :
                 /\ lo <= hi
                 /\ selected_hour' = <<lo, hi>>
            /\ pc' = "filter"
            /\ err' = err
    /\ UNCHANGED <<data_files, data, filtered_data, metrics>>

\* get_filtered_data called on arguments of any value (line 53)
AnyArguments ==
    /\ pc = "sidebar"
    /\ selected_month' \in SUBSET MonthChoices
    /\ selected_base' \in SUBSET BaseChoices
    /\ selected_hour' \in HourChoices \X HourChoices
    /\ pc' = "filter"
    /\ UNCHANGED <<err, data_files, data, filtered_data, metrics>>

\* the filter assigned back to the table: data = data[mask]
GetFilteredData_in_place ==
    /\ pc = "filter"
    /\ filtered_data' = get_filtered_data(data, selected_month, selected_base, selected_hour)
    /\ data' = filtered_data'
    /\ pc' = "metrics"
    /\ UNCHANGED <<err, data_files, selected_month, selected_base, selected_hour, metrics>>

\* line 106
GetFilteredData ==
    /\ pc = "filter"
    /\ filtered_data' = get_filtered_data(data, selected_month, selected_base, selected_hour)
    /\ pc' = "metrics"
    /\ UNCHANGED <<err, data_files, data, selected_month, selected_base, selected_hour, metrics>>

\* position of a base code in the order of Python's string comparison
StrKey(s) == CHOOSE i \in 1..Len(BaseCodes) : BaseCodes[i] = s

\* the hours of a day in ascending order
HourOrder == [i \in 1..24 |-> i - 1]

Count(col, v) == Cardinality({ i \in 1..Len(col) : col[i] = v })

\* the values of the column that occur most often
Modes(col) ==
    { v \in Range(col) : \A w \in Range(col) : Count(col, v) >= Count(col, w) }

\* the values of S in ascending order, order being the ascending order of
\* all values of the column's type
Sorted(S, order) == SelectSeq(order, LAMBDA v : v \in S)

\* mode() without the sort: the most frequent values in order of appearance
mode_unsorted(col, order) == SelectSeq(unique(col), LAMBDA v : v \in Modes(col))

\* Series.mode(): the most frequent values, sorted ascending
mode(col, order) == Sorted(Modes(col), order)

Metric(label, value) == [label |-> label, value |-> value]

\* lines 234-237: four st.sidebar.metric calls in a row; mode()[0] raises
\* KeyError when mode() is empty, which ends the script run
SidebarMetrics ==
    /\ pc = "metrics"
    /\ LET first2 == << Metric("Total Rides", Len(filtered_data)),
                        Metric("Unique Days", nunique(Column(filtered_data, "day"))) >>
           hours == mode(Column(filtered_data, "hour"), HourOrder)
           bases == mode(Column(filtered_data, "Base"), BaseCodes)
       IN  IF hours = <<>>
           THEN /\ metrics' = first2
                /\ pc' = "crashed"
                /\ err' = "KeyError"
           ELSE IF bases = <<>>
           THEN /\ metrics' = Append(first2, Metric("Peak Hour", hours[1]))
                /\ pc' = "crashed"
                /\ err' = "KeyError"
           ELSE /\ metrics' = first2 \o << Metric("Peak Hour", hours[1]),
                                           Metric("Most Active Base", bases[1]) >>
                /\ pc' = "done"
                /\ err' = err
    /\ UNCHANGED <<data_files, data, selected_month, selected_base, selected_hour, filtered_data>>

\* a widget interaction reruns the script from the top; within the ttl of
\* st.cache_data the load is served from the cache, and a load that raised
\* cached nothing and runs again
Rerun ==
    /\ pc \in {"done", "crashed"}
    /\ pc' = IF data_files > 0 THEN "sidebar" ELSE "load"
    /\ err' = "none"
    /\ filtered_data' = <<>>
    /\ metrics' = <<>>
    /\ UNCHANGED <<data_files, data, selected_month, selected_base, selected_hour>>

Next ==
    \/ Load
    \/ SidebarFilters
    \/ GetFilteredData
    \/ SidebarMetrics
    \/ Rerun

Spec == Init /\ [][Next]_vars

\* get_filtered_data as a function of its arguments
NextFilter ==
    \/ Load
    \/ AnyArguments
    \/ GetFilteredData

SpecFilter == Init /\ [][NextFilter]_vars

(* ---------------- properties ---------------- *)

\* the filter predicate as the specification words it
Matches(r, months, bases, hours) ==
    /\ r.month \in months
    /\ r.Base \in bases
    /\ hours[1] <= r.hour
    /\ r.hour <= hours[2]

MatchesSelection(r) == Matches(r, selected_month, selected_base, selected_hour)

\* the metrics step has run in this script run
Summarized == pc = "done" \/ (pc = "crashed" /\ err = "KeyError")

\* C1: the result of get_filtered_data holds exactly the rows of the table
\* whose month is among the selected months, whose base is among the selected
\* bases and whose hour lies in the closed hour range: no other row, and
\* every such row once.
C1_FilterExact ==
    pc = "metrics" =>
        /\ \A j \in 1..Len(filtered_data) :
             filtered_data[j] \in Range(data) /\ MatchesSelection(filtered_data[j])
        /\ \A i \in 1..Len(data) :
             MatchesSelection(data[i]) => data[i] \in Range(filtered_data)
        /\ Len(filtered_data) = Cardinality({ i \in 1..Len(data) : MatchesSelection(data[i]) })

C1_Witness ==
    /\ pc = "metrics"
    /\ \E i, j \in 1..Len(data) :
         /\ MatchesSelection(data[i])
         /\ ~MatchesSelection(data[j])
         /\ data[j].hour < selected_hour[1]

\* C2 (as claimed): the metrics of an empty view are Total Rides 0 and
\* Unique Days 0, and the run does not end in the exception of the mode
\* computation.
C2_EmptyViewHandled ==
    (Summarized /\ filtered_data = <<>>) =>
        /\ metrics[1].value = 0
        /\ metrics[2].value = 0
        /\ pc = "done"

\* C3: get_filtered_data returns the empty view and raises nothing when the
\* month selection is empty, the base selection is empty, the hour range is
\* inverted, or no row of the table matches.
C3_DegenerateEmpty ==
    ( /\ pc = "metrics"
      /\ \/ selected_month = {}
         \/ selected_base = {}
         \/ selected_hour[1] > selected_hour[2]
         \/ \A i \in 1..Len(data) : ~MatchesSelection(data[i]) )
    => (filtered_data = <<>> /\ err = "none")

C3_Witness ==
    /\ pc = "metrics"
    /\ selected_hour = <<10, 8>>
    /\ \E i \in 1..Len(data) : data[i].month \in selected_month /\ data[i].Base \in selected_base
    /\ filtered_data = <<>>
    /\ err = "none"

\* C4 (as claimed): a load that found no input file returns an empty table
\* and raises nothing.
C4_NoSourcesEmptyTable ==
    (pc # "load" /\ data_files = 0) => (data = <<>> /\ err = "none" /\ pc # "crashed")

\* C5 (as claimed): load never returns a table with a row whose month is
\* outside the six month categories or whose dayofweek is outside the seven
\* day categories; a missing month counts as outside.
C5_VocabularyOnly ==
    \A i \in 1..Len(data) :
        /\ data[i].month \in Range(MonthCategories)
        /\ data[i].dayofweek \in Range(DayCategories)

MaxCount(col, v) == v \in Range(col) /\ \A w \in Range(col) : Count(col, v) >= Count(col, w)

\* position of the first occurrence of a value in a column
FirstAt(col, v) == CHOOSE i \in 1..Len(col) : col[i] = v /\ \A k \in 1..(i - 1) : col[k] # v

C7_CountsAndDays ==
    Summarized =>
        /\ metrics[1].value = Len(filtered_data)
        /\ metrics[2].value = Cardinality({ filtered_data[i].day : i \in 1..Len(filtered_data) })
        /\ \A i \in 1..Len(filtered_data) : filtered_data[i].day \in 1..31
        /\ metrics[2].value <= 31
        /\ metrics[2].value <= metrics[1].value

C7_Witness ==
    /\ pc = "done"
    /\ Len(filtered_data) = 2
    /\ filtered_data[1].day = filtered_data[2].day
    /\ filtered_data[1].month # filtered_data[2].month
    /\ metrics[1].value = 2
    /\ metrics[2].value = 1

IsSubFrame(small, large) ==
    /\ Range(small) \subseteq Range(large)
    /\ Len(small) <= Len(large)

\* C8: a selection that differs from the current one only by more months, or
\* only by more bases, or only by a wider hour range, yields a view that
\* holds every row of the current view and is at least as long.
C8_Monotone ==
    pc = "metrics" =>
        /\ \A months \in SUBSET MonthChoices :
             selected_month \subseteq months =>
                IsSubFrame(filtered_data,
                           get_filtered_data(data, months, selected_base, selected_hour))
        /\ \A bases \in SUBSET BaseChoices :
             selected_base \subseteq bases =>
                IsSubFrame(filtered_data,
                           get_filtered_data(data, selected_month, bases, selected_hour))
        /\ \A hours \in HourChoices \X HourChoices :
             (hours[1] <= selected_hour[1] /\ hours[2] >= selected_hour[2]) =>
                IsSubFrame(filtered_data,
                           get_filtered_data(data, selected_month, selected_base, hours))

C8_Witness ==
    /\ pc = "metrics"
    /\ filtered_data # <<>>
    /\ selected_hour = <<9, 9>>
    /\ Len(get_filtered_data(data, selected_month, selected_base, <<9, 10>>)) > Len(filtered_data)

\* C9: filtering the filtered view again with the same selection returns
\* the same view.
C9_Idempotent ==
    pc = "metrics" =>
        get_filtered_data(filtered_data, selected_month, selected_base, selected_hour)
            = filtered_data

C9_Witness ==
    /\ pc = "metrics"
    /\ Len(data) = 2
    /\ Len(filtered_data) = 1
    /\ get_filtered_data(filtered_data, selected_month, selected_base, selected_hour)
            = filtered_data

\* C10: a step other than the load leaves the trip table as it was loaded,
\* and every row of the filtered view is a row of the table with the same
\* field values.
C10_TableUnchanged ==
    [][ /\ (pc # "load" => data' = data)
        /\ Range(filtered_data') \subseteq Range(data') ]_vars

C10_Witness ==
    /\ pc = "done"
    /\ Len(data) = 2
    /\ Len(filtered_data) = 1
    /\ filtered_data[1] = data[2]

====
